---- MODULE Spec2Model ----
(* Agency data gateway (agency_ffi.c): a lazily loaded, process-wide JSON     *)
(* configuration, linear scans over its "agencies" array, asset files named   *)
(* after the lower-cased acronym, and a key-presence check of issue payloads. *)
(* Strings are sequences of one-character strings; pointers are heap          *)
(* addresses (positive integers), NULL is 0.                                  *)
EXTENDS Integers, Sequences, FiniteSets, Bags, TLC

\* ---------------------------------------------------------------- bounds ---
MaxAgencies == 2      \* longest "agencies" array on disk
MaxLive == 1          \* strings the caller holds unreleased at one time
MaxReads == 2         \* attempts to read the configuration file in one run

NULL == 0

\* --------------------------------------------------------------- strings ---
HS == <<"H", "S">>
hs == <<"h", "s">>
DS == <<"D", "S">>
hc == <<"h", "c">>
Hc == <<"H", "c">>

AgencyArgs == {HS, hs, DS}
AssetArgs == {HS, DS}
DomainArgs == {hc, Hc}
TierArgs == {1, 99}

tolower(c) ==
    CASE c = "H" -> "h"
      [] c = "S" -> "s"
      [] c = "D" -> "d"
      [] c = "C" -> "c"
      [] OTHER -> c

\* the loop of agency_get_issue_finder and its two siblings
agency_lower(agency) == [i \in 1..Len(agency) |-> tolower(agency[i])]

strcmp(a, b) == IF a = b THEN 0 ELSE 1

\* ------------------------------------------------- the configuration file ---
\* A field of a record is <<>> when the key is absent and <<v>> when present.
Records ==
    { [acronym |-> <<HS>>, tier |-> <<1>>, domain |-> <<hc>>],
      [acronym |-> <<hs>>, tier |-> <<2>>, domain |-> <<Hc>>],
      [acronym |-> <<>>,   tier |-> <<1>>, domain |-> <<hc>>],
      [acronym |-> <<HS>>, tier |-> <<>>,  domain |-> <<>>] }

RECURSIVE SeqsUpTo(_, _)
SeqsUpTo(S, n) ==
    IF n = 0 THEN {<<>>}
    ELSE LET shorter == SeqsUpTo(S, n - 1)
         IN  shorter \cup {Append(s, x) : s \in shorter, x \in S}

\* has = the top-level "agencies" key is present
FileContents ==
    {[has |-> FALSE, agencies |-> <<>>]}
    \cup {[has |-> TRUE, agencies |-> s] : s \in SeqsUpTo(Records, MaxAgencies)}

\* ------------------------------------------------------------------ heap ---
NoVal == [has |-> FALSE, agencies |-> <<>>]

Cell(kind) == [kind |-> kind, val |-> NoVal]

\* malloc and its kin: some address that is not live
NewAddr(h) ==
    CHOOSE a \in 1..(Cardinality(DOMAIN h) + 1) :
        /\ a \notin DOMAIN h
        /\ \A b \in 1..(a - 1) : b \in DOMAIN h

Alloc(h, cell) == [a \in DOMAIN h \cup {NewAddr(h)} |-> IF a \in DOMAIN h THEN h[a] ELSE cell]

Release(h, p) == [a \in DOMAIN h \ {p} |-> h[a]]

EmptyHeap == [a \in {} |-> Cell("str")]

\* json-c builds one object per value, each created with reference count 1
InMemory(content) ==
    [has |-> content.has,
     agencies |-> [i \in 1..Len(content.agencies) |->
                     [acronym |-> content.agencies[i].acronym,
                      tier |-> content.agencies[i].tier,
                      domain |-> content.agencies[i].domain,
                      rc |-> 1]]]

\* json_object_from_file(CONFIG_FILE): NULL when the file is missing,
\* unreadable or malformed, a fresh object otherwise
json_object_from_file(h, ok, content) ==
    IF ~ok THEN [ptr |-> NULL, heap |-> h]
    ELSE [ptr |-> NewAddr(h),
          heap |-> Alloc(h, [kind |-> "config", val |-> InMemory(content)])]

\* json_object_to_json_string_ext: the text of one record (the in-memory
\* reference count is not part of it)
ToJson(r) == [acronym |-> r.acronym, tier |-> r.tier, domain |-> r.domain]

\* load_config without line 37: the object is returned but not cached
load_config_noCache(g, h, ok, content) ==
    IF g # NULL THEN [ret |-> g, g |-> g, heap |-> h, read |-> "no"]
    ELSE LET config == json_object_from_file(h, ok, content)
         IN  [ret |-> config.ptr, g |-> g, heap |-> config.heap,
              read |-> IF config.ptr = NULL THEN "failed" ELSE "loaded"]

\* load_config that caches an empty object when the file cannot be loaded
load_config_cachesFailure(g, h, ok, content) ==
    IF g # NULL THEN [ret |-> g, g |-> g, heap |-> h, read |-> "no"]
    ELSE LET config == json_object_from_file(h, ok, content)
             empty == json_object_from_file(h, TRUE, NoVal)
         IN  IF config.ptr = NULL
             THEN [ret |-> NULL, g |-> empty.ptr, heap |-> empty.heap,
                   read |-> "failed"]
             ELSE [ret |-> config.ptr, g |-> config.ptr, heap |-> config.heap,
                   read |-> "loaded"]

\* ----------------------------------------------------------- load_config ---
\* read: "no" when the cached pointer is returned (line 28), "failed" or
\* "loaded" when the file was read (line 31)
load_config(g, h, ok, content) ==
    IF g # NULL THEN [ret |-> g, g |-> g, heap |-> h, read |-> "no"]
    ELSE LET config == json_object_from_file(h, ok, content)
         IN  IF config.ptr = NULL
             THEN [ret |-> NULL, g |-> g, heap |-> config.heap, read |-> "failed"]
             ELSE [ret |-> config.ptr, g |-> config.ptr, heap |-> config.heap,
                   read |-> "loaded"]

\* find_loop comparing as strcasecmp does
RECURSIVE find_loop_nocase(_, _, _)
find_loop_nocase(agencies, agency, i) ==
    IF i > Len(agencies) THEN 0
    ELSE IF /\ Len(agencies[i].acronym) = 1
            /\ strcmp(agency_lower(agencies[i].acronym[1]), agency_lower(agency)) = 0
         THEN i
         ELSE find_loop_nocase(agencies, agency, i + 1)

\* ----------------------------------------------------------- find_agency ---
RECURSIVE find_loop(_, _, _)
find_loop(agencies, agency, i) ==
    IF i > Len(agencies) THEN 0
    ELSE IF /\ Len(agencies[i].acronym) = 1
            /\ strcmp(agencies[i].acronym[1], agency) = 0
         THEN i
         ELSE find_loop(agencies, agency, i + 1)

\* idx = position of the record found in the agencies array, 0 for NULL
find_agency(g, h, ok, content, agency) ==
    LET lc == load_config(g, h, ok, content)
    IN  IF lc.ret = NULL THEN [idx |-> 0, lc |-> lc]
        ELSE IF ~lc.heap[lc.ret].val.has THEN [idx |-> 0, lc |-> lc]
        ELSE [idx |-> find_loop(lc.heap[lc.ret].val.agencies, agency, 1), lc |-> lc]

\* ---------------------------------------------------- results of a call ---
\* ret: the pointer returned; g, heap: g_config and the heap after the call;
\* read: what load_config did with the file; rec, list, text: what the
\* returned string holds (a record, a list of acronyms, a file's contents);
\* fault: an allocation or a serialisation failed inside the call
Outcome(ret, g, h, read, rec, list, text) ==
    [ret |-> ret, g |-> g, heap |-> h, read |-> read,
     rec |-> rec, list |-> list, text |-> text, fault |-> FALSE]

Failed(g, h, read) == Outcome(NULL, g, h, read, <<>>, <<>>, <<>>)

Faulted(g, h, read) == [Failed(g, h, read) EXCEPT !.fault = TRUE]

\* strdup: a copy in a fresh allocation, NULL when memory is exhausted
strdup(h, oom) ==
    IF oom THEN [ptr |-> NULL, heap |-> h]
    ELSE [ptr |-> NewAddr(h), heap |-> Alloc(h, Cell("str"))]

\* ---------------------------------------------------- agency_get_context ---
\* json_str points into storage owned by the record (its print buffer), which
\* lives in the configuration object at lc.ret
agency_get_context(g, h, ok, content, agency, fail) ==
    LET f == find_agency(g, h, ok, content, agency)
        lc == f.lc
    IN  IF f.idx = 0 THEN Failed(lc.g, lc.heap, lc.read)
        ELSE IF fail = "to_string" THEN Faulted(lc.g, lc.heap, lc.read)
        ELSE LET json_str == ToJson(lc.heap[lc.ret].val.agencies[f.idx])
                 context == strdup(lc.heap, fail = "strdup")
             IN  IF context.ptr = NULL THEN Faulted(lc.g, context.heap, lc.read)
                 ELSE Outcome(context.ptr, lc.g, context.heap, lc.read,
                              <<json_str>>, <<>>, <<>>)

\* ------------------------------------------------------- the three lists ---
\* json_object_array_add is taken to succeed: a json-c array is created with
\* room for 32 entries, so adding to the short lists built here allocates
\* nothing.
\* json_object_get(acronym): one more reference on record i's acronym value
json_object_get(agencies, i) ==
    [agencies EXCEPT ![i].rc = agencies[i].rc + 1]

\* json_object_get_int on an integer value within the range of int
json_object_get_int(v) == v

\* all_loop with the bound i < num_agencies - 1: the last record is left out
RECURSIVE all_loop_offByOne(_, _, _)
all_loop_offByOne(agencies, elems, i) ==
    IF i >= Len(agencies) THEN [agencies |-> agencies, elems |-> elems]
    ELSE IF Len(agencies[i].acronym) = 1
         THEN all_loop_offByOne(json_object_get(agencies, i), Append(elems, i), i + 1)
         ELSE all_loop_offByOne(agencies, elems, i + 1)

\* elems holds, for each entry of agency_list, the index of the record whose
\* acronym value it references
RECURSIVE all_loop(_, _, _)
all_loop(agencies, elems, i) ==
    IF i > Len(agencies) THEN [agencies |-> agencies, elems |-> elems]
    ELSE IF Len(agencies[i].acronym) = 1
         THEN all_loop(json_object_get(agencies, i), Append(elems, i), i + 1)
         ELSE all_loop(agencies, elems, i + 1)

RECURSIVE tier_loop(_, _, _, _)
tier_loop(agencies, elems, i, tier) ==
    IF i > Len(agencies) THEN [agencies |-> agencies, elems |-> elems]
    ELSE IF /\ Len(agencies[i].tier) = 1
            /\ json_object_get_int(agencies[i].tier[1]) = tier
            /\ Len(agencies[i].acronym) = 1
         THEN tier_loop(json_object_get(agencies, i), Append(elems, i), i + 1, tier)
         ELSE tier_loop(agencies, elems, i + 1, tier)

\* domain_loop comparing as strcasecmp does
RECURSIVE domain_loop_nocase(_, _, _, _)
domain_loop_nocase(agencies, elems, i, domain) ==
    IF i > Len(agencies) THEN [agencies |-> agencies, elems |-> elems]
    ELSE IF /\ Len(agencies[i].domain) = 1
            /\ strcmp(agency_lower(agencies[i].domain[1]), agency_lower(domain)) = 0
            /\ Len(agencies[i].acronym) = 1
         THEN domain_loop_nocase(json_object_get(agencies, i), Append(elems, i), i + 1,
                                 domain)
         ELSE domain_loop_nocase(agencies, elems, i + 1, domain)

RECURSIVE domain_loop(_, _, _, _)
domain_loop(agencies, elems, i, domain) ==
    IF i > Len(agencies) THEN [agencies |-> agencies, elems |-> elems]
    ELSE IF /\ Len(agencies[i].domain) = 1
            /\ strcmp(agencies[i].domain[1], domain) = 0
            /\ Len(agencies[i].acronym) = 1
         THEN domain_loop(json_object_get(agencies, i), Append(elems, i), i + 1, domain)
         ELSE domain_loop(agencies, elems, i + 1, domain)

\* json_object_put(agency_list): the array is freed and drops the reference
\* it holds on each of its entries
RECURSIVE put_elems(_, _, _)
put_elems(agencies, elems, k) ==
    IF k > Len(elems) THEN agencies
    ELSE put_elems([agencies EXCEPT ![elems[k]].rc = agencies[elems[k]].rc - 1],
                   elems, k + 1)

json_object_put(h, cfg, list, agencies, elems) ==
    [Release(h, list) EXCEPT ![cfg].val.agencies = put_elems(agencies, elems, 1)]

\* the text of agency_list: the acronyms its entries reference, in order
ListText(agencies, elems) ==
    [k \in 1..Len(elems) |-> agencies[elems[k]].acronym[1]]

\* list_tail releasing agency_list with free instead of json_object_put: the
\* references taken on the acronym values are never dropped
list_tail_freeOnly(lc, list, looped, fail) ==
    LET h == [lc.heap EXCEPT ![lc.ret].val.agencies = looped.agencies]
    IN  IF fail = "to_string" THEN Faulted(lc.g, Release(h, list), lc.read)
        ELSE LET result == strdup(h, fail = "strdup")
                 after == Release(result.heap, list)
             IN  IF result.ptr = NULL THEN Faulted(lc.g, after, lc.read)
                 ELSE Outcome(result.ptr, lc.g, after, lc.read, <<>>,
                              ListText(looped.agencies, looped.elems), <<>>)

\* the common tail of the three list operations: serialise, copy, release
list_tail(lc, list, looped, fail) ==
    LET h == [lc.heap EXCEPT ![lc.ret].val.agencies = looped.agencies]
    IN  IF fail = "to_string"
        THEN Faulted(lc.g, json_object_put(h, lc.ret, list, looped.agencies, looped.elems),
                     lc.read)
        ELSE LET result == strdup(h, fail = "strdup")
                 after == json_object_put(result.heap, lc.ret, list,
                                          looped.agencies, looped.elems)
             IN  IF result.ptr = NULL THEN Faulted(lc.g, after, lc.read)
                 ELSE Outcome(result.ptr, lc.g, after, lc.read, <<>>,
                              ListText(looped.agencies, looped.elems), <<>>)

agency_get_all_agencies(g, h, ok, content, fail) ==
    LET lc == load_config(g, h, ok, content)
    IN  IF lc.ret = NULL THEN Failed(lc.g, lc.heap, lc.read)
        ELSE IF ~lc.heap[lc.ret].val.has THEN Failed(lc.g, lc.heap, lc.read)
        ELSE IF fail = "new_array" THEN Faulted(lc.g, lc.heap, lc.read)
        ELSE LET agency_list == NewAddr(lc.heap)
                 withList == [lc EXCEPT !.heap = Alloc(lc.heap, Cell("array"))]
             IN  list_tail(withList, agency_list,
                           all_loop(lc.heap[lc.ret].val.agencies, <<>>, 1), fail)

agency_get_agencies_by_tier(g, h, ok, content, tier, fail) ==
    LET lc == load_config(g, h, ok, content)
    IN  IF lc.ret = NULL THEN Failed(lc.g, lc.heap, lc.read)
        ELSE IF ~lc.heap[lc.ret].val.has THEN Failed(lc.g, lc.heap, lc.read)
        ELSE IF fail = "new_array" THEN Faulted(lc.g, lc.heap, lc.read)
        ELSE LET agency_list == NewAddr(lc.heap)
                 withList == [lc EXCEPT !.heap = Alloc(lc.heap, Cell("array"))]
             IN  list_tail(withList, agency_list,
                           tier_loop(lc.heap[lc.ret].val.agencies, <<>>, 1, tier), fail)

agency_get_agencies_by_domain(g, h, ok, content, domain, fail) ==
    LET lc == load_config(g, h, ok, content)
    IN  IF lc.ret = NULL THEN Failed(lc.g, lc.heap, lc.read)
        ELSE IF ~lc.heap[lc.ret].val.has THEN Failed(lc.g, lc.heap, lc.read)
        ELSE IF fail = "new_array" THEN Faulted(lc.g, lc.heap, lc.read)
        ELSE LET agency_list == NewAddr(lc.heap)
                 withList == [lc EXCEPT !.heap = Alloc(lc.heap, Cell("array"))]
             IN  list_tail(withList, agency_list,
                           domain_loop(lc.heap[lc.ret].val.agencies, <<>>, 1, domain),
                           fail)

\* ------------------------------------------------------------ asset files ---
ISSUE_FINDER_DIR == "../agency_issue_finder/agencies"
CONNECTOR_DIR == "../agencies"
TEMPLATES_DIR == "../templates"

\* snprintf(file_path, ..., "%s/%s<suffix>", dir, agency_lower)
FilePath(dir, name, suffix) == [dir |-> dir, name |-> name, suffix |-> suffix]

\* the asset files on disk
AssetStore ==
    { FilePath(ISSUE_FINDER_DIR, hs, "_finder.py"),
      FilePath(TEMPLATES_DIR, hs, "_ascii.txt"),
      FilePath(CONNECTOR_DIR, agency_lower(DS), "_connector.py") }

\* read_file without the fclose of line 107: a short read leaves the file open
read_file_noClose(h, files, file_path, fail) ==
    IF file_path \notin files
    THEN [ptr |-> NULL, heap |-> h, text |-> <<>>, fault |-> FALSE]
    ELSE LET file == NewAddr(h)
             opened == Alloc(h, Cell("FILE"))
         IN  IF fail = "malloc"
             THEN [ptr |-> NULL, heap |-> Release(opened, file), text |-> <<>>,
                   fault |-> TRUE]
             ELSE LET buffer == NewAddr(opened)
                      filled == Alloc(opened, Cell("str"))
                  IN  IF fail = "fread"
                      THEN [ptr |-> NULL, heap |-> Release(filled, buffer),
                            text |-> <<>>, fault |-> TRUE]
                      ELSE [ptr |-> buffer, heap |-> Release(filled, file),
                            text |-> <<file_path>>, fault |-> FALSE]

\* read_file: the FILE is closed on every path, the buffer is freed on a
\* short read; the text returned is the contents of file_path
read_file(h, files, file_path, fail) ==
    IF file_path \notin files
    THEN [ptr |-> NULL, heap |-> h, text |-> <<>>, fault |-> FALSE]
    ELSE LET file == NewAddr(h)
             opened == Alloc(h, Cell("FILE"))
         IN  IF fail = "malloc"
             THEN [ptr |-> NULL, heap |-> Release(opened, file), text |-> <<>>,
                   fault |-> TRUE]
             ELSE LET buffer == NewAddr(opened)
                      filled == Alloc(opened, Cell("str"))
                  IN  IF fail = "fread"
                      THEN [ptr |-> NULL,
                            heap |-> Release(Release(filled, buffer), file),
                            text |-> <<>>, fault |-> TRUE]
                      ELSE [ptr |-> buffer, heap |-> Release(filled, file),
                            text |-> <<file_path>>, fault |-> FALSE]

\* the shared body of the three asset operations: lower-case the acronym into
\* a temporary buffer, build the path, free the buffer, read the file
asset_body(h, files, agency, dir, suffix, fail) ==
    IF fail = "malloc_lower"
    THEN [ptr |-> NULL, heap |-> h, text |-> <<>>, fault |-> TRUE]
    ELSE LET lower == NewAddr(h)
             held == Alloc(h, Cell("lower"))
             file_path == FilePath(dir, agency_lower(agency), suffix)
         IN  read_file(Release(held, lower), files, file_path, fail)

agency_get_issue_finder(h, files, agency, fail) ==
    asset_body(h, files, agency, ISSUE_FINDER_DIR, "_finder.py", fail)

agency_get_research_connector(h, files, agency, fail) ==
    asset_body(h, files, agency, CONNECTOR_DIR, "_connector.py", fail)

agency_get_ascii_art(h, files, agency, fail) ==
    asset_body(h, files, agency, TEMPLATES_DIR, "_ascii.txt", fail)

\* agency_free_context: free(context)
agency_free_context(h, context) ==
    IF context = NULL THEN h ELSE Release(h, context)

\* ---------------------------------------------------- agency_verify_issue ---
required_fields == <<"id", "title", "description", "affected_areas">>

\* An issue text is malformed, the literal null, an array, or an object with
\* some top-level keys.
IssueKeys == {"id", "title", "description", "affected_areas", "extra"}

IssueTexts ==
    { [kind |-> k, keys |-> {}] : k \in {"malformed", "null", "array"} }
    \cup { [kind |-> "object", keys |-> K] : K \in SUBSET IssueKeys }

\* {not json, null, [], {"id":..,"title":..}, an issue with all four keys
IssueSample ==
    { [kind |-> k, keys |-> {}] : k \in {"malformed", "null", "array"} }
    \cup { [kind |-> "object", keys |-> {"id", "title"}],
           [kind |-> "object", keys |-> IssueKeys \ {"extra"}] }

\* The text is JSON
IsJson(text) == text.kind # "malformed"

\* json_tokener_parse: NULL for text that does not parse, and NULL for the
\* literal null, which json-c represents by the NULL pointer
json_tokener_parse(h, text) ==
    IF text.kind \in {"malformed", "null"} THEN [ptr |-> NULL, heap |-> h]
    ELSE [ptr |-> NewAddr(h), heap |-> Alloc(h, Cell("issue"))]

\* json_object_object_get_ex on the parsed issue: false for a non-object
json_object_object_get_ex(text, key) ==
    text.kind = "object" /\ key \in text.keys

RECURSIVE verify_loop(_, _)
verify_loop(text, i) ==
    IF i > Len(required_fields) THEN 1
    ELSE IF ~json_object_object_get_ex(text, required_fields[i]) THEN 0
    ELSE verify_loop(text, i + 1)

agency_verify_issue(h, agency, issue_json) ==
    LET issue == json_tokener_parse(h, issue_json)
    IN  IF issue.ptr = NULL THEN [code |-> -1, heap |-> issue.heap]
        ELSE [code |-> verify_loop(issue_json, 1),
              heap |-> Release(issue.heap, issue.ptr)]

\* ----------------------------------------------------------------- state ---
Threads == {1, 2}

VARIABLES
    content,    \* what the configuration file holds
    fileOk,     \* the file is present, readable and well-formed
    assets,     \* the asset files that exist
    g_config,   \* the cache pointer
    heap,       \* live allocations and open files: address -> cell
    owned,      \* bag of the pointers returned to the caller and not yet released
    last,       \* the latest call: operation, arguments, result
    reads,      \* times the configuration file was read
    loads,      \* times a read produced a configuration object
    pc,         \* position of each thread inside load_config
    local       \* each thread's local variable config

vars == <<content, fileOk, assets, g_config, heap, owned, last, reads, loads, pc, local>>

NoIssue == [kind |-> "none", keys |-> {}]

\* cached: load_config answered the call from the cache (line 28);
\* fault: an allocation or a serialisation failed inside the call
Call(op, sarg, iarg, jarg, ret, code, rec, list, text, cached, fault) ==
    [op |-> op, sarg |-> sarg, iarg |-> iarg, jarg |-> jarg, ret |-> ret,
     code |-> code, rec |-> rec, list |-> list, text |-> text, cached |-> cached,
     fault |-> fault]

NoCall == Call("none", <<>>, 0, NoIssue, NULL, 0, <<>>, <<>>, <<>>, FALSE, FALSE)

Init ==
    /\ content \in FileContents
    /\ fileOk \in BOOLEAN
    /\ assets = AssetStore
    /\ g_config = NULL
    /\ heap = EmptyHeap
    /\ owned = EmptyBag
    /\ last = NoCall
    /\ reads = 0
    /\ loads = 0
    /\ pc = [t \in Threads |-> "idle"]
    /\ local = [t \in Threads |-> NULL]

\* the caller may hold one more string, and the file may be read once more
MayCall == BagCardinality(owned) < MaxLive /\ (g_config = NULL => reads < MaxReads)

\* the effect on the process of a call that consults the configuration
ConfigCall(o, op, sarg, iarg) ==
    /\ g_config' = o.g
    /\ heap' = o.heap
    /\ reads' = reads + (IF o.read # "no" THEN 1 ELSE 0)
    /\ loads' = loads + (IF o.read = "loaded" THEN 1 ELSE 0)
    /\ owned' = IF o.ret # NULL THEN owned (+) SetToBag({o.ret}) ELSE owned
    /\ last' = Call(op, sarg, iarg, NoIssue, o.ret, 0, o.rec, o.list, o.text,
                  o.read = "no",
                  o.fault)
    /\ UNCHANGED <<content, fileOk, assets, pc, local>>

GetContext(agency, fail) ==
    /\ MayCall
    /\ ConfigCall(agency_get_context(g_config, heap, fileOk, content, agency, fail),
                  "get_context", agency, 0)

GetAllAgencies(fail) ==
    /\ MayCall
    /\ ConfigCall(agency_get_all_agencies(g_config, heap, fileOk, content, fail),
                  "get_all_agencies", <<>>, 0)

GetAgenciesByTier(tier, fail) ==
    /\ MayCall
    /\ ConfigCall(agency_get_agencies_by_tier(g_config, heap, fileOk, content, tier, fail),
                  "get_agencies_by_tier", <<>>, tier)

GetAgenciesByDomain(domain, fail) ==
    /\ MayCall
    /\ ConfigCall(agency_get_agencies_by_domain(g_config, heap, fileOk, content, domain, fail),
                  "get_agencies_by_domain", domain, 0)

\* the effect of a call that reads an asset file
AssetCall(r, op, agency) ==
    /\ heap' = r.heap
    /\ owned' = IF r.ptr # NULL THEN owned (+) SetToBag({r.ptr}) ELSE owned
    /\ last' = Call(op, agency, 0, NoIssue, r.ptr, 0, <<>>, <<>>, r.text, FALSE, r.fault)
    /\ UNCHANGED <<content, fileOk, assets, g_config, reads, loads, pc, local>>

GetIssueFinder(agency, fail) ==
    /\ BagCardinality(owned) < MaxLive
    /\ AssetCall(agency_get_issue_finder(heap, assets, agency, fail),
                 "get_issue_finder", agency)

GetResearchConnector(agency, fail) ==
    /\ BagCardinality(owned) < MaxLive
    /\ AssetCall(agency_get_research_connector(heap, assets, agency, fail),
                 "get_research_connector", agency)

GetAsciiArt(agency, fail) ==
    /\ BagCardinality(owned) < MaxLive
    /\ AssetCall(agency_get_ascii_art(heap, assets, agency, fail),
                 "get_ascii_art", agency)

\* the caller releases a string it holds, once
FreeContext(context) ==
    /\ BagIn(context, owned)
    /\ heap' = agency_free_context(heap, context)
    /\ owned' = owned (-) SetToBag({context})
    /\ last' = Call("free_context", <<>>, 0, NoIssue, NULL, 0, <<>>, <<>>, <<>>, FALSE,
                    FALSE)
    /\ UNCHANGED <<content, fileOk, assets, g_config, reads, loads, pc, local>>

VerifyIssue(agency, issue_json) ==
    LET r == agency_verify_issue(heap, agency, issue_json)
    IN  /\ heap' = r.heap
        /\ last' = Call("verify_issue", agency, 0, issue_json, NULL, r.code,
                        <<>>, <<>>, <<>>, FALSE, FALSE)
        /\ UNCHANGED <<content, fileOk, assets, g_config, owned, reads, loads, pc, local>>

\* the environment: the configuration file appears, disappears or is damaged
FileChange ==
    /\ fileOk' = ~fileOk
    /\ UNCHANGED <<content, assets, g_config, heap, owned, last, reads, loads, pc, local>>

ContextFails == {"none", "to_string", "strdup"}
ListFails == {"none", "new_array", "to_string", "strdup"}
AssetFails == {"none", "malloc_lower", "malloc", "fread"}

Next ==
    \/ \E a \in AgencyArgs, f \in ContextFails : GetContext(a, f)
    \/ \E f \in ListFails : GetAllAgencies(f)
    \/ \E t \in TierArgs, f \in ListFails : GetAgenciesByTier(t, f)
    \/ \E d \in DomainArgs, f \in ListFails : GetAgenciesByDomain(d, f)
    \/ \E a \in AssetArgs, f \in AssetFails : GetIssueFinder(a, f)
    \/ \E a \in AssetArgs, f \in AssetFails : GetResearchConnector(a, f)
    \/ \E a \in AssetArgs, f \in AssetFails : GetAsciiArt(a, f)
    \/ \E p \in BagToSet(owned) : FreeContext(p)
    \/ \E j \in IssueSample : VerifyIssue(DS, j)
    \/ FileChange

Spec == Init /\ [][Next]_vars

\* ------------------------------------------- two threads in load_config ---
\* line 27: the thread reads g_config; non-NULL is returned at once
LoadCheck(t) ==
    /\ pc[t] = "idle"
    /\ IF g_config # NULL
       THEN pc' = [pc EXCEPT ![t] = "return"] /\ local' = [local EXCEPT ![t] = g_config]
       ELSE pc' = [pc EXCEPT ![t] = "read"] /\ UNCHANGED local
    /\ UNCHANGED <<content, fileOk, assets, g_config, heap, owned, last, reads, loads>>

\* lines 31-35: json_object_from_file into the local variable config
LoadRead(t) ==
    /\ pc[t] = "read"
    /\ reads < MaxReads
    /\ LET config == json_object_from_file(heap, fileOk, content)
       IN  /\ heap' = config.heap
           /\ local' = [local EXCEPT ![t] = config.ptr]
           /\ reads' = reads + 1
           /\ loads' = loads + (IF config.ptr # NULL THEN 1 ELSE 0)
           /\ pc' = [pc EXCEPT ![t] = IF config.ptr = NULL THEN "return" ELSE "store"]
    /\ UNCHANGED <<content, fileOk, assets, g_config, owned, last>>

\* line 37 under a guard: the store happens only while g_config is still
\* NULL; a thread that lost the race frees its object and takes the cached one
LoadStore_guarded(t) ==
    /\ pc[t] = "store"
    /\ IF g_config = NULL
       THEN g_config' = local[t] /\ UNCHANGED <<heap, local>>
       ELSE /\ heap' = Release(heap, local[t])
            /\ local' = [local EXCEPT ![t] = g_config]
            /\ UNCHANGED g_config
    /\ pc' = [pc EXCEPT ![t] = "return"]
    /\ UNCHANGED <<content, fileOk, assets, owned, last, reads, loads>>

\* line 37: g_config = config
LoadStore(t) ==
    /\ pc[t] = "store"
    /\ g_config' = local[t]
    /\ pc' = [pc EXCEPT ![t] = "return"]
    /\ UNCHANGED <<content, fileOk, assets, heap, owned, last, reads, loads, local>>

\* lines 28, 34, 38: load_config returns to its caller
LoadReturn(t) ==
    /\ pc[t] = "return"
    /\ last' = Call("load_config", <<>>, t, NoIssue, local[t], 0, <<>>, <<>>, <<>>, FALSE,
                    FALSE)
    /\ pc' = [pc EXCEPT ![t] = "idle"]
    /\ local' = [local EXCEPT ![t] = NULL]
    /\ UNCHANGED <<content, fileOk, assets, g_config, heap, owned, reads, loads>>

NextMT ==
    \/ \E t \in Threads : LoadCheck(t)
    \/ \E t \in Threads : LoadRead(t)
    \/ \E t \in Threads : LoadStore(t)
    \/ \E t \in Threads : LoadReturn(t)
    \/ FileChange

SpecMT == Init /\ [][NextMT]_vars

\* verify_issue on every issue text and acronym, before and after a load
NextVerify ==
    \/ \E a \in AgencyArgs, j \in IssueTexts : VerifyIssue(a, j)
    \/ GetAllAgencies("none")
    \/ \E p \in BagToSet(owned) : FreeContext(p)

\* issue verification never looks at the records: an empty configuration will do
InitVerify == Init /\ content.agencies = <<>>

SpecVerify == InitVerify /\ [][NextVerify]_vars

\* ================================================================ claims ===
\* What the configuration file says, read off the file and not off the code.
HasRecord(a) ==
    /\ content.has
    /\ \E i \in 1..Len(content.agencies) : content.agencies[i].acronym = <<a>>

FirstRecord(a) ==
    content.agencies[CHOOSE i \in 1..Len(content.agencies) :
                        /\ content.agencies[i].acronym = <<a>>
                        /\ \A j \in 1..(i - 1) : content.agencies[j].acronym # <<a>>]

AcronymsOf(records) == [k \in 1..Len(records) |-> records[k].acronym[1]]

WithAcronym(r) == Len(r.acronym) = 1

AllAcronyms == AcronymsOf(SelectSeq(content.agencies, WithAcronym))

TierAcronyms(t) ==
    AcronymsOf(SelectSeq(content.agencies,
                         LAMBDA r : WithAcronym(r) /\ r.tier = <<t>>))

DomainAcronyms(d) ==
    AcronymsOf(SelectSeq(content.agencies,
                         LAMBDA r : WithAcronym(r) /\ r.domain = <<d>>))

ConfigOps ==
    {"get_context", "get_all_agencies", "get_agencies_by_tier", "get_agencies_by_domain"}

AssetOps == {"get_issue_finder", "get_research_connector", "get_ascii_art"}

\* a step of one of the four operations that consult the configuration: the
\* other steps change fileOk or leave another operation's name in last
ConfigStep == last'.op \in ConfigOps /\ fileOk' = fileOk

\* C1: single-threaded, once a load has succeeded the configuration file is
\* never read again and g_config never changes; at most one load succeeds in
\* the whole run.
C1_LoadedOnce ==
    [][ /\ g_config # NULL => (g_config' = g_config /\ reads' = reads /\ loads' = loads)
        /\ loads' <= 1 ]_vars

\* a call answered from the cache, after the one load
C1_Witness ==
    /\ last.op = "get_context" /\ last.cached /\ last.ret # NULL
    /\ g_config # NULL /\ loads = 1

\* C2: a failed load is not cached: a configuration call made while g_config
\* is NULL reads the file; if the file cannot be loaded the call returns NULL
\* and g_config stays NULL, and if it can the load succeeds, whatever failed
\* before.
C2_FailureNotCached ==
    [][ (ConfigStep /\ g_config = NULL) =>
            /\ reads' = reads + 1
            /\ ~fileOk => (last'.ret = NULL /\ g_config' = NULL /\ loads' = loads)
            /\ fileOk => /\ g_config' # NULL
                         /\ loads' = loads + 1
                         /\ g_config' \in DOMAIN heap'
                         /\ heap'[g_config'].val = InMemory(content) ]_vars

\* a call that succeeded on the second read of the file, after a failed first
C2_Witness ==
    /\ reads = 2 /\ loads = 1 /\ g_config # NULL
    /\ last.op = "get_context" /\ ~last.cached /\ last.ret # NULL

\* C3: with the configuration loaded, get_context(a) returns a string exactly
\* when some record's acronym equals a (case-sensitively), and the string is
\* the text of the first such record, whose acronym is a; for an absent
\* acronym it returns NULL. (A call in which an allocation fails returns NULL.)
C3_GetContext ==
    (last.op = "get_context" /\ g_config # NULL) =>
        /\ ~last.fault => (last.ret # NULL <=> HasRecord(last.sarg))
        /\ ~HasRecord(last.sarg) => last.ret = NULL
        /\ last.ret # NULL =>
              /\ last.rec = <<FirstRecord(last.sarg)>>
              /\ last.rec[1].acronym = <<last.sarg>>

\* get_context returned the first of two different records that share an
\* acronym
C3_Witness ==
    /\ last.op = "get_context" /\ last.ret # NULL /\ g_config # NULL
    /\ Len(content.agencies) = 2
    /\ content.agencies[1].acronym = content.agencies[2].acronym
    /\ content.agencies[1] # content.agencies[2]
    /\ last.rec = <<content.agencies[1]>>

\* C4 as claimed: with the configuration loaded, get_all_agencies returns a
\* list with one entry per record of the agencies array, the records'
\* acronyms in the original order.
C4_OnePerRecord ==
    (last.op = "get_all_agencies" /\ last.ret # NULL) =>
        /\ Len(last.list) = Len(content.agencies)
        /\ \A i \in 1..Len(content.agencies) :
              content.agencies[i].acronym = <<last.list[i]>>

\* C4 as amended: with the configuration loaded, get_all_agencies returns
\* NULL when the configuration has no agencies key, and otherwise the list, in
\* the original order, of the acronyms of the records that have an acronym
\* field: one entry per such record.
C4_AllAgencies ==
    (last.op = "get_all_agencies" /\ g_config # NULL) =>
        /\ ~last.fault => (last.ret # NULL <=> content.has)
        /\ ~content.has => last.ret = NULL
        /\ last.ret # NULL =>
              /\ last.list = AllAcronyms
              /\ Len(last.list) =
                    Cardinality({i \in 1..Len(content.agencies) :
                                    WithAcronym(content.agencies[i])})

\* get_all_agencies listed two different acronyms, skipping no record
C4_Witness ==
    /\ last.op = "get_all_agencies" /\ last.ret # NULL /\ g_config # NULL
    /\ Len(last.list) = 2 /\ last.list[1] # last.list[2]

\* C5 as claimed: get_agencies_by_tier and get_agencies_by_domain return NULL
\* only when the configuration cannot be loaded; otherwise the list of the
\* matching records' acronyms in the original order, empty when none matches.
C5_NullOnlyUnloaded ==
    (last.op \in {"get_agencies_by_tier", "get_agencies_by_domain"} /\ ~last.fault) =>
        /\ last.ret = NULL => g_config = NULL
        /\ last.ret # NULL =>
              last.list = IF last.op = "get_agencies_by_tier"
                          THEN TierAcronyms(last.iarg)
                          ELSE DomainAcronyms(last.sarg)

\* C5 as amended: the result is NULL only when the configuration cannot be
\* loaded or has no agencies key; otherwise it is the list, in the original
\* order, of the acronyms of the records whose tier equals t (whose domain
\* equals d, case-sensitively), empty and not NULL when no record matches,
\* also for t outside 1..8.
C5_Filtered ==
    (last.op \in {"get_agencies_by_tier", "get_agencies_by_domain"}) =>
        /\ g_config = NULL => last.ret = NULL
        /\ ~last.fault => (last.ret = NULL <=> (g_config = NULL \/ ~content.has))
        /\ last.ret # NULL =>
              last.list = IF last.op = "get_agencies_by_tier"
                          THEN TierAcronyms(last.iarg)
                          ELSE DomainAcronyms(last.sarg)

\* a domain that differs only in case from some record's domain selected a
\* proper, non-empty part of the records
C5_Witness ==
    /\ last.op = "get_agencies_by_domain" /\ last.ret # NULL
    /\ Len(last.list) = 1 /\ Len(AllAcronyms) = 2
    /\ \E i \in 1..Len(content.agencies) :
          /\ Len(content.agencies[i].domain) = 1
          /\ content.agencies[i].domain[1] # last.sarg
          /\ agency_lower(content.agencies[i].domain[1]) = agency_lower(last.sarg)

\* C6 as claimed: verify_issue returns -1 exactly when the text is not JSON,
\* 1 exactly when it is JSON with all four keys at the top level, 0 exactly
\* when it is JSON with some key missing; the agency plays no part.
TopLevelKeys(text) == IF text.kind = "object" THEN text.keys ELSE {}

AllRequired(text) ==
    \A i \in 1..Len(required_fields) : required_fields[i] \in TopLevelKeys(text)

C6_ThreeWay ==
    last.op = "verify_issue" =>
        /\ last.code \in {-1, 0, 1}
        /\ last.code = -1 <=> ~IsJson(last.jarg)
        /\ last.code = 1 <=> (IsJson(last.jarg) /\ AllRequired(last.jarg))
        /\ last.code = 0 <=> (IsJson(last.jarg) /\ ~AllRequired(last.jarg))

\* C7 as claimed: for an acronym with no record in the configuration the
\* three asset operations return NULL, whatever files exist.
C7_NoRecordNull ==
    (last.op \in AssetOps /\ ~HasRecord(last.sarg)) => last.ret = NULL

ConfigCells(h) == {a \in DOMAIN h : h[a].kind = "config"}

C9_Unguarded ==
    [][ /\ \A t \in Threads :
              (pc[t] = "store" /\ pc'[t] = "return") => g_config' = local[t]
        /\ ConfigCells(heap) \subseteq ConfigCells(heap')
        /\ Cardinality(ConfigCells(heap')) = loads' ]_vars

\* both threads saw NULL, both read the file and both stored: two objects are
\* live and g_config points to one of them
C9_Witness ==
    /\ \A t \in Threads : pc[t] = "return" /\ local[t] # NULL
    /\ local[1] # local[2]
    /\ loads = 2
    /\ g_config \in {local[1], local[2]}
    /\ ConfigCells(heap) = {local[1], local[2]}

\* C10: once loaded, the configuration is neither changed nor freed by any
\* call: its records, their order, their values and every reference count are
\* after each call what they were when the file was parsed, each count being 1.
C10_ConfigUntouched ==
    [][ /\ g_config # NULL =>
              /\ g_config' = g_config
              /\ g_config \in DOMAIN heap'
              /\ heap'[g_config] = heap[g_config]
        /\ g_config' # NULL =>
              /\ g_config' \in DOMAIN heap'
              /\ heap'[g_config'].val = InMemory(content) ]_vars

\* a list of two acronyms was built from the cached configuration and released
C10_Witness ==
    /\ last.op = "get_agencies_by_tier" /\ last.cached /\ Len(last.list) = 2
    /\ g_config # NULL /\ heap[g_config].val = InMemory(content)

====
